---- MODULE Spec2Model ----
(***************************************************************************)
(* meteostations-geopy: the cached, retrying HTTP fetch layer              *)
(* (meteostations/base.py, meteostations/clients/base.py,                  *)
(* meteostations/clients/aemet.py, meteostations/utils.py) and the lazily  *)
(* computed client attributes (stations_gdf, variables_df).                *)
(* Further sections: the region resolver (_process_region_arg and the      *)
(* region setter), the variable resolver (_process_variable_arg) and the   *)
(* spatial join of the station catalog (_get_stations_gdf).                *)
(*                                                                         *)
(* Specifications: Spec (fetches), SpecMemo (attribute accesses),          *)
(* SpecRegion, SpecVariable, SpecStations, and SpecLive (a fetch against a *)
(* server free to answer 429/504 at will, with weak fairness of the steps  *)
(* of the sequential program), SpecDisk (fetches on a cache folder whose   *)
(* writes may fail), SpecHeaders (requests that differ in their headers),  *)
(* SpecRace (two processes on one cache file) and SpecProviders (the ECV   *)
(* dictionaries and variable catalogs of the six providers).               *)
(*                                                                         *)
(* The settings module is the process-wide configuration.  settings.py     *)
(* carries PAUSE and TIMEOUT as commented lines and does not assign        *)
(* CACHE_FOLDER, which the fetcher and utils read; the model takes them as *)
(* set by the deployment (PAUSE to the commented value).                   *)
(***************************************************************************)
EXTENDS Integers, Sequences, FiniteSets, TLC

\* ------------------------------------------------------------------ bounds
MaxCalls == 2          \* _get_json_from_url calls / attribute accesses in a run
MaxRetries == 2        \* non-JSON 429/504 answers the server gives to one call
MaxSets == 2           \* assignments to a client's `region` in a run
RecursionLimit == 3    \* nested _perform_request frames the interpreter allows

\* --------------------------------------------------------------- constants
PAUSE == 1             \* settings.PAUSE
ERROR_PAUSE == 60      \* settings.ERROR_PAUSE
NoneInt == 0 - 1       \* Python None for an optional number of seconds

\* ------------------------------------------------------------ input domains
KV(k, v) == [k |-> k, v |-> v]

\* Optional mappings (Python None or an insertion-ordered dict, a sequence of
\* pairs with distinct keys).
None == [some |-> FALSE, val |-> <<>>]
Some(d) == [some |-> TRUE, val |-> d]

Args(url, params, headers, pause, error_pause) ==
  [url |-> url, params |-> params, headers |-> headers, pause |-> pause,
   error_pause |-> error_pause]

\* Argument tuples _get_json_from_url is called with
Plain == Args("u1", None, None, NoneInt, NoneInt)
WithA == Args("u1", Some(<<KV("a", 1)>>), Some(<<KV("h", 1)>>), 2, 5)
WithAB == Args("u1", Some(<<KV("a", 1), KV("b", 1)>>), None, NoneInt, NoneInt)
WithBA == Args("u1", Some(<<KV("b", 1), KV("a", 1)>>), None, NoneInt, 5)
\* Plain with headers: the two differ in nothing but the headers
WithH == Args("u1", None, Some(<<KV("h", 1)>>), NoneInt, NoneInt)

\* Client instances: the class that provides _get_json_from_url, and the
\* instance's request_params / request_headers properties.
ClientsBase == [cls |-> "ClientsBase", request_params |-> <<>>, request_headers |-> <<>>]
Base == [cls |-> "Base", request_params |-> <<>>, request_headers |-> <<>>]
Aemet == [cls |-> "Aemet", request_params |-> <<KV("api_key", 1)>>,
          request_headers |-> <<KV("cache-control", 0)>>]

\* A clients.base client whose request_headers property carries its API key
WithApiKey == [cls |-> "ClientsBase", request_params |-> <<>>,
               request_headers |-> <<KV("X-Api-Key", 1)>>]

\* The calls made in a run: which client, with which arguments
Calls ==
  {[client |-> ClientsBase, args |-> a] : a \in {Plain, WithA, WithAB, WithBA}}
  \cup {[client |-> Base, args |-> a] : a \in {Plain, WithA}}
  \cup {[client |-> Aemet, args |-> a] : a \in {Plain, WithA}}

\* Server answers: status code and body; "html" is a body that is not JSON.
Bodies == {"p1", "p2", "null", "html"}
Resp(sc, body) == [sc |-> sc, body |-> body]
Responses ==
  {Resp(200, b) : b \in Bodies}
  \cup {Resp(404, "p1"), Resp(404, "html"), Resp(429, "html"), Resp(504, "html")}
IsJson(resp) == resp.body # "html"
Reason(sc) == CASE sc = 200 -> "OK"
                [] sc = 404 -> "Not Found"
                [] sc = 429 -> "Too Many Requests"
                [] OTHER -> "Gateway Timeout"

\* Python values handled by the fetcher: a decoded JSON body, wrapped in
\* `wraps` 2-tuples (value, status code), innermost first.
\* [json |-> "p1", wraps |-> <<200, 504>>] is ((p1, 200), 504).
PyVal(json, wraps) == [json |-> json, wraps |-> wraps]
NoneVal == PyVal("null", <<>>)

\* ------------------------------------------------------------- dict helpers
HasKey(d, k) == \E i \in 1..Len(d) : d[i].k = k

RECURSIVE Update(_, _)
\* dict.update: an existing key keeps its position, a new key is appended
Update(d, p) ==
  IF p = <<>> THEN d
  ELSE LET kv == Head(p)
           d1 == IF HasKey(d, kv.k)
                 THEN [i \in 1..Len(d) |-> IF d[i].k = kv.k THEN kv ELSE d[i]]
                 ELSE Append(d, kv)
       IN Update(d1, Tail(p))

\* _params = self.request_params.copy(); if params is not None: _params.update(params)
Merged(defaults, arg) == IF arg.some THEN Update(defaults, arg.val) ELSE defaults

\* requests.Request("GET", url, params=_params).prepare().url : the url followed
\* by the key=value pairs in the dict's iteration (insertion) order
PreparedUrl(url, params) == [url |-> url, query |-> params]

\* ------------------------------------------------------------------- utils
\* sha1(url.encode("utf-8")).hexdigest() + ".json"
sha1(url) == [sha1 |-> url]
json_dumps(v) == [text |-> v]
json_loads(s) == s.text

\* Mutant: the lookup hashes something else than the url and finds no file
_url_in_cache_never(url, store) == None

\* Path to the cached response for url if the file exists, otherwise None
_url_in_cache(url, store) ==
  IF sha1(url) \in DOMAIN store THEN Some(<<sha1(url)>>) ELSE None

\* Mutant: the lookup does not test settings.USE_CACHE
_retrieve_ignoring_setting(url, store, use_cache) ==
  LET cache_filepath == _url_in_cache(url, store)
  IN IF cache_filepath.some
     THEN json_loads(store[cache_filepath.val[1]])
     ELSE NoneVal

\* Mutant: every cached response is taken to be expired
_retrieve_expired(url, store, use_cache) == NoneVal

_retrieve_from_cache(url, store, use_cache) ==
  IF use_cache
  THEN LET cache_filepath == _url_in_cache(url, store)
       IN IF cache_filepath.some
          THEN json_loads(store[cache_filepath.val[1]])
          ELSE NoneVal
  ELSE NoneVal

Ev(e, n) == [e |-> e, n |-> n]

\* Mutant: the status code is not tested
_save_any_status(url, response_json, sc, store, use_cache) ==
  IF use_cache
  THEN IF response_json = NoneVal
       THEN [store |-> store, log |-> <<Ev("log_not_saved_none", sc)>>]
       ELSE [store |-> [f \in DOMAIN store \cup {sha1(url)} |->
                          IF f = sha1(url) THEN json_dumps(response_json)
                          ELSE store[f]],
             log |-> <<Ev("log_saved", sc)>>]
  ELSE [store |-> store, log |-> <<>>]

\* Returns the store after the call and the messages passed to utils.log
_save_to_cache(url, response_json, sc, store, use_cache) ==
  IF use_cache
  THEN IF sc # 200
       THEN [store |-> store, log |-> <<Ev("log_not_saved_sc", sc)>>]
       ELSE IF response_json = NoneVal
       THEN [store |-> store, log |-> <<Ev("log_not_saved_none", sc)>>]
       ELSE [store |-> [f \in DOMAIN store \cup {sha1(url)} |->
                          IF f = sha1(url) THEN json_dumps(response_json)
                          ELSE store[f]],
             log |-> <<Ev("log_saved", sc)>>]
  ELSE [store |-> store, log |-> <<>>]

\* ------------------------------------------------------------------- state
VARIABLES
  USE_CACHE,   \* settings.USE_CACHE
  cache,       \* files of settings.CACHE_FOLDER: file name -> text
  writer,      \* history: file name -> the request and status that wrote it
  pc,          \* position of the running _get_json_from_url call
  call,        \* client and arguments of the running (or last) call, with
               \* history: the setting and the store it started with (use_cache,
               \* cache0), whether the lookup hit, and what the call before it
               \* returned for the same request (prior)
  stack,       \* _perform_request frames, outermost first
  ret,         \* outcome of the last finished call
  trace,       \* sleeps, GETs and log messages of the running (or last) call
  reqs,        \* requests sent by the running (or last) call
  resps,       \* responses received by the running (or last) call
  ncalls,      \* calls and attribute accesses started so far
  memo,        \* the instances' _stations_gdf / _variables_df: 0 is unset,
               \* otherwise the identity of the object
  access,      \* the attribute access that is computing its value, if any
  nextObj,     \* identity of the next object created
  got,         \* history: the objects each attribute's accesses returned
  ncompute,    \* history: computations each attribute started
  nfailed,     \* history: computations of each attribute that raised
  ox,          \* the module-level name ox: TRUE when `import osmnx` succeeded
  region_call, \* history: the last _process_region_arg call and its outcome
  _region,     \* the clients' _region attribute
  stations_region, \* history: the Region each client's _stations_gdf was built from
  nsets,       \* assignments to `region` so far
  variables_df,   \* a client's variable table: rows of code and name
  _ecv_dict,      \* the client's mapping of ECV keys to variable names
  variable_call,  \* history: the last _process_variable_arg call and its outcome
  join_call,      \* history: the last _get_stations_gdf call and its outcome
  file,           \* one cache file as two processes see it: exists, characters
  procs           \* the two processes: position, payload received, outcome

fetchVars == <<USE_CACHE, cache, writer, pc, call, stack, ret, trace, reqs, resps,
               ncalls>>
memoVars == <<memo, access, nextObj, got, ncompute, nfailed>>
regionVars == <<ox, region_call, _region, stations_region, nsets>>
variableVars == <<variables_df, _ecv_dict, variable_call>>
raceVars == <<file, procs>>
clientVars == <<regionVars, variableVars, join_call, raceVars>>
vars == <<USE_CACHE, cache, writer, pc, call, stack, ret, trace, reqs, resps,
          ncalls, memo, access, nextObj, got, ncompute, nfailed,
          ox, region_call, _region, stations_region, nsets,
          variables_df, _ecv_dict, variable_call, join_call, file, procs>>

\* The lazily computed attributes of three client instances: AemetClient
\* (base.BaseClient.stations_gdf, VariablesEndpointMixin.variables_df),
\* AgrometeoClient (VariablesEndpointMixin.variables_df on a
\* clients.base.BaseClient) and an IEM client (VariablesHardcodedMixin)
Attributes ==
  { <<"aemet", "stations_gdf">>, <<"aemet", "variables_df">>,
    <<"agrometeo", "variables_df">>, <<"iem", "variables_df">> }
ClientOf(inst) == IF inst = "aemet" THEN Aemet ELSE ClientsBase
Hardcoded(at) == at[1] = "iem"
\* self._get_json_from_url(self._stations_endpoint / self._variables_endpoint)
EndpointArgs(at) ==
  Args(IF at[2] = "stations_gdf" THEN "u1" ELSE "u2", None, None, NoneInt, NoneInt)
NoAccess == [active |-> FALSE, at |-> <<"aemet", "stations_gdf">>]

NoRet == [kind |-> "none", val |-> NoneVal, sc |-> 0, reason |-> "", text |-> ""]
Returned(v) == [kind |-> "value", val |-> v, sc |-> 0, reason |-> "", text |-> ""]
\* Mutant: the message leaves out response.text
RaisedWithoutBody(resp) == [kind |-> "raise", val |-> NoneVal, sc |-> resp.sc,
                            reason |-> Reason(resp.sc), text |-> ""]

\* Exception("Server returned:\n{response} {response.reason}\n{response.text}")
Raised(resp) == [kind |-> "raise", val |-> NoneVal, sc |-> resp.sc,
                 reason |-> Reason(resp.sc), text |-> resp.body]

\* A _perform_request frame: its arguments, and its locals sc and response_json
Frame(url, params, headers, pause, error_pause) ==
  [url |-> url, params |-> params, headers |-> headers, pause |-> pause,
   error_pause |-> error_pause, sc |-> 0, response_json |-> NoneVal]

\* Whether the class's _get_json_from_url consults the Cache Store at all
ConsultsCache(cls) == cls # "Aemet"

\* The url both cache operations of _get_json_from_url are keyed by
CacheUrl(client, url, params) ==
  IF client.cls = "ClientsBase"
  THEN PreparedUrl(url, Merged(client.request_params, params))
  ELSE PreparedUrl(url, <<>>)

\* Mutant: the merged headers of the request are part of the cache key
prepared_url_with_headers(client, args) ==
  [url |-> args.url,
   query |-> Merged(client.request_params, args.params)
             \o Merged(client.request_headers, args.headers)]

\* prepared_url of _get_json_from_url: the key of the lookup and of the save
prepared_url(client, args) == CacheUrl(client, args.url, args.params)

\* ------------------------------------------------------- region resolution
\* Coordinate reference systems; NoCRS is a crs attribute that is None
NoCRS == "None"
CRSs == {"epsg:4326", "epsg:21781"}

\* The two classes that define `region` and _process_region_arg, and the CRS
\* their client declares (AemetClient.CRS, agrometeo DEFAULT_CRS)
Resolvers == {"RegionMixin", "ClientsBase"}
DeclaredCRS(cls) == IF cls = "RegionMixin" THEN "epsg:4326" ELSE "epsg:21781"

\* A geometry is the sequence of its coordinates.  A change of CRS moves every
\* coordinate; to the same CRS it moves nothing.
Shift(from, to) ==
  IF from = to THEN 0 ELSE IF to = "epsg:21781" THEN 100 ELSE 0 - 100
Transform(geom, from, to) == [i \in 1..Len(geom) |-> geom[i] + Shift(from, to)]

\* Elements of a Python sequence: an int or float, a geometry, a string
Num(n) == [k |-> "num", v |-> <<n>>]
Geo(g) == [k |-> "geom", v |-> g]
Str == [k |-> "str", v |-> <<>>]

\* A value passed as `region`: its type, its crs attribute (geo-series and
\* geo-data frames), its elements, its text (strings and paths)
RegionArg(t, crs, data, name) == [t |-> t, crs |-> crs, data |-> data, name |-> name]

RegionArgs ==
  {RegionArg(t, crs, <<Geo(<<1, 2>>)>>, "") :
      t \in {"GeoDataFrame", "GeoSeries"}, crs \in CRSs \cup {NoCRS}}
  \cup {RegionArg("list", NoCRS, d, "") :
          d \in {<<Num(1), Num(2), Num(3), Num(4)>>,
                 <<Num(1), Str, Str, Str>>,
                 <<Num(1), Num(2), Num(3)>>,
                 <<Geo(<<1, 2>>), Geo(<<3, 4>>)>>,
                 <<Geo(<<1>>), Geo(<<2>>), Geo(<<3>>), Geo(<<4>>)>>}}
  \cup {RegionArg("BaseGeometry", NoCRS, <<Geo(<<1, 2>>)>>, ""),
        RegionArg("IO", NoCRS, <<>>, "a.gpkg")}
  \cup {RegionArg("str", NoCRS, <<>>, n) :
          n \in {"a.gpkg", "naive.shp", "Pully", "nowhere"}}
  \cup {RegionArg("PathLike", NoCRS, <<>>, n) : n \in {"a.gpkg", "nowhere"}}

\* hasattr(region, "__iter__") and hasattr(region, "__len__")
HasIter(region) == region.t \in {"GeoDataFrame", "GeoSeries", "list", "IO", "str"}
HasLen(region) == region.t \in {"GeoDataFrame", "GeoSeries", "list", "str"}

\* A geo-data frame: its crs and its geometry column
Gdf(crs, geometry) == [crs |-> crs, geometry |-> geometry]
NoGdf == Gdf(NoCRS, <<>>)

\* The files gpd.read_file can open, and the places Nominatim knows (one data
\* frame row per candidate, in epsg:4326)
Files == {"a.gpkg", "naive.shp"}
FileGdf(name) == IF name = "a.gpkg" THEN Gdf("epsg:4326", <<<<5, 6>>>>)
                 ELSE Gdf(NoCRS, <<<<5, 6>>>>)
Places == {"Pully"}
Candidates(name) == <<<<7, 8>>, <<9, 9>>>>

\* Outcome of a call: a returned geo-data frame or the exception raised, and
\* (history) the statements of _process_region_arg that were entered
Done(val, steps) == [ok |-> TRUE, err |-> "", val |-> val, steps |-> steps]
Fail(err, steps) == [ok |-> FALSE, err |-> err, val |-> NoGdf, steps |-> steps]

\* Mutant: the final statement relabels the frame instead of reprojecting it
set_crs(gdf, crs, steps) == Done(Gdf(crs, gdf.geometry), Append(steps, "to_crs"))

\* region.to_crs(self.CRS): the final statement
to_crs(gdf, crs, steps) ==
  IF gdf.crs = NoCRS
  THEN Fail("ValueError", Append(steps, "to_crs"))
  ELSE Done(Gdf(crs, [i \in 1..Len(gdf.geometry) |->
                        Transform(gdf.geometry[i], gdf.crs, crs)]),
            Append(steps, "to_crs"))

\* gpd.GeoDataFrame(geometry=region, crs=getattr(region, "crs", self.CRS)) of a
\* geo-series, followed by the final statement
FromGeoSeries(series, CRS, steps) ==
  to_crs(Gdf(series.crs, series.geometry), CRS, Append(steps, "GeoDataFrame"))

\* gpd.GeoSeries(region, crs=self.CRS) of a geometry, a sequence or (in
\* RegionMixin) a geo-series, followed by the statements after it
Wrap(region, CRS, steps) ==
  IF region.t = "GeoSeries" /\ region.crs # NoCRS /\ region.crs # CRS
  THEN Fail("ValueError", Append(steps, "GeoSeries"))
  ELSE IF \E i \in 1..Len(region.data) : region.data[i].k # "geom"
  THEN Fail("TypeError", Append(steps, "GeoSeries"))
  ELSE IF region.t = "IO"
  THEN Fail("TypeError", Append(steps, "GeoSeries"))
  ELSE FromGeoSeries(Gdf(CRS, [i \in 1..Len(region.data) |-> region.data[i].v]),
                     CRS, Append(steps, "GeoSeries"))

\* geometry.box(*region) and the statements after it
Box(region, CRS) ==
  IF \E i \in 1..4 : region.data[i].k # "num"
  THEN Fail("TypeError", <<"box">>)
  ELSE Wrap(RegionArg("BaseGeometry", NoCRS,
                      <<Geo([i \in 1..4 |-> region.data[i].v[1]])>>, ""),
            CRS, <<"box">>)

\* The except branch: ox.geocode_to_gdf(region, **geocode_to_gdf_kws).iloc[:1]
Geocode(region, CRS, imported) ==
  IF ~imported THEN Fail("AttributeError", <<"read_file", "geocode">>)
  ELSE IF region.name \in Places
  THEN to_crs(Gdf("epsg:4326", SubSeq(Candidates(region.name), 1, 1)), CRS,
              <<"read_file", "geocode">>)
  ELSE Fail("GeocodeError", <<"read_file", "geocode">>)

\* try: region = gpd.read_file(region) except (DriverError, AttributeError)
ReadFile(region, CRS, imported) ==
  IF region.name \in Files
  THEN to_crs(FileGdf(region.name), CRS, <<"read_file">>)
  ELSE Geocode(region, CRS, imported)

\* The test that sends a value to the naive-geometry branch
IsNaive(cls, region) ==
  /\ cls = "ClientsBase" => region.t # "GeoSeries"
  /\ (HasIter(region) /\ region.t # "str") \/ region.t = "BaseGeometry"

\* len(region) == 4 and isinstance(region[0], (int, float))
IsBBox(region) ==
  HasLen(region) /\ Len(region.data) = 4 /\ region.data[1].k = "num"

\* The body of _process_region_arg of class cls on a client whose CRS is CRS
ProcessRegionArg(cls, CRS, region, imported) ==
  IF region.t = "GeoDataFrame"
  THEN to_crs(Gdf(region.crs, [i \in 1..Len(region.data) |-> region.data[i].v]),
              CRS, <<>>)
  ELSE IF IsNaive(cls, region)
  THEN IF IsBBox(region) THEN Box(region, CRS) ELSE Wrap(region, CRS, <<>>)
  ELSE IF region.t = "GeoSeries"
  THEN FromGeoSeries(Gdf(region.crs, [i \in 1..Len(region.data) |->
                                        region.data[i].v]), CRS, <<>>)
  ELSE ReadFile(region, CRS, imported)

_process_region_arg(cls, region, imported) ==
  ProcessRegionArg(cls, DeclaredCRS(cls), region, imported)

\* The client instances that own a Region
Instances == {"aemet", "agrometeo"}
ResolverOf(inst) == IF inst = "aemet" THEN "RegionMixin" ELSE "ClientsBase"
Unset == [set |-> FALSE, val |-> NoGdf]
IsNow(gdf) == [set |-> TRUE, val |-> gdf]
NoRegionCall == [inst |-> "aemet", arg |-> RegionArg("str", NoCRS, <<>>, ""),
                 res |-> Fail("", <<>>), before |-> Unset]

\* ------------------------------------------------------- stations in region
\* A row of stations_df: the station id and the point built from X_COL / Y_COL
Station(id, pt) == [id |-> id, pt |-> pt]
\* A stations table: its rows and its column names
StationsDf(rows, columns) == [rows |-> rows, columns |-> columns]
StationRows == <<Station("s1", 1), Station("s2", 2), Station("s3", 3)>>
StationsDfs ==
  { StationsDf(StationRows, {"id", "x", "y"}),
    StationsDf(StationRows, {"id", "name", "x", "y"}) }

\* A polygon: the points of its interior and of its boundary
Poly(interior, boundary) == [interior |-> interior, boundary |-> boundary]
\* A Region: the rows of its geometry column and its column names
RegionGdf(geometry, columns) == [geometry |-> geometry, columns |-> columns]
RegionGdfs ==
  { RegionGdf(g, c) :
      g \in { <<Poly({1, 2}, {})>>, <<Poly({1}, {2})>>, <<Poly({}, {})>>,
              <<Poly({1, 2, 3}, {})>>, <<Poly({3}, {1})>>,
              <<Poly({1, 2}, {}), Poly({2, 3}, {})>>,
              <<Poly({1}, {}), Poly({3}, {})>> },
      c \in { {"geometry"}, {"geometry", "name", "display_name"} } }

\* self.SJOIN_KWS: the keys the caller gave; "absent" is a key not given
SjoinKws(how, predicate) == [how |-> how, predicate |-> predicate]
SjoinKwsSet ==
  { SjoinKws("absent", "absent"), SjoinKws("inner", "intersects"),
    SjoinKws("absent", "within"), SjoinKws("left", "absent") }

\* The binary predicate of a station point against a polygon
Holds(predicate, pt, poly) ==
  IF predicate = "within" THEN pt \in poly.interior
  ELSE pt \in poly.interior \cup poly.boundary

Joined(rows, columns) == [ok |-> TRUE, rows |-> rows, columns |-> columns, err |-> ""]
JoinFails(err) == [ok |-> FALSE, rows |-> <<>>, columns |-> {}, err |-> err]

RECURSIVE JoinRows(_, _, _, _, _)
\* The rows of left.sjoin(right): for each left row in index order, one row per
\* right row the predicate holds for (how="left" keeps a row without any)
JoinRows(rows, region, how, predicate, i) ==
  IF i > Len(rows) THEN <<>>
  ELSE LET hits == {j \in 1..Len(region.geometry) :
                      Holds(predicate, rows[i].pt, region.geometry[j])}
           mine == IF hits = {}
                   THEN IF how = "left" THEN <<rows[i]>> ELSE <<>>
                   ELSE [k \in 1..Cardinality(hits) |-> rows[i]]
       IN mine \o JoinRows(rows, region, how, predicate, i + 1)

\* stations_gdf.sjoin(self.region, **_sjoin_kws)[stations_gdf.columns]: a column
\* name present on both sides is suffixed by sjoin and no longer found
_get_stations_gdf(stations_df, region, kws) ==
  LET how == IF kws.how = "absent" THEN "inner" ELSE kws.how
      predicate == IF kws.predicate = "absent" THEN "intersects" ELSE kws.predicate
      columns == stations_df.columns \cup {"geometry"}
  IN IF (stations_df.columns \cap region.columns) \ {"geometry"} # {}
     THEN JoinFails("KeyError")
     ELSE Joined(JoinRows(stations_df.rows, region, how, predicate, 1), columns)

\* IEMClient._get_stations_gdf: the same join against self.region[["geometry"]]
IEM_get_stations_gdf(stations_df, region, kws) ==
  _get_stations_gdf(stations_df, RegionGdf(region.geometry, {"geometry"}), kws)

\* The classes that define _get_stations_gdf
JoinClasses == {"AllStationsEndpointMixin", "IEMClient"}

NoJoinCall == [made |-> FALSE, cls |-> "AllStationsEndpointMixin",
               stations_df |-> StationsDf(<<>>, {}),
               region |-> RegionGdf(<<>>, {}), kws |-> SjoinKws("absent", "absent"),
               res |-> JoinFails("")]

\* ------------------------------------------- two processes, one cache file
\* Two processes run _get_json_from_url for the same prepared URL on a shared
\* settings.CACHE_FOLDER with settings.USE_CACHE True
Procs == {1, 2}

\* The characters json.dumps writes for a payload: payloads differ in length
Chars(body) == IF body = "p1" THEN <<"a", "a">> ELSE <<"b">>
\* json.loads of the characters read: the payload, or "invalid" when the text
\* is not the text of a payload (JSONDecodeError)
Decode(text) ==
  IF text = Chars("p1") THEN "p1" ELSE IF text = Chars("p2") THEN "p2"
  ELSE "invalid"
\* write() at offset 0 of a file that holds old
Overlay(data, old) == data \o SubSeq(old, Len(data) + 1, Len(old))

\* What _perform_request hands to _get_json_from_url: (response_json, sc)
Outcomes ==
  {[body |-> "p1", sc |-> 200], [body |-> "p2", sc |-> 200],
   [body |-> "null", sc |-> 200], [body |-> "p1", sc |-> 429]}

NoFile == [exists |-> FALSE, text |-> <<>>]
Proc(at, body, sc, kind, val) ==
  [pc |-> at, body |-> body, sc |-> sc, kind |-> kind, val |-> val]

InitFolder ==
  /\ file = NoFile
  /\ procs = [p \in Procs |-> Proc("lookup", "none", 0, "none", "none")]

\* _url_in_cache: filepath.is_file()
Lookup(p) ==
  /\ procs[p].pc = "lookup"
  /\ procs' = [procs EXCEPT ![p].pc = IF file.exists THEN "read" ELSE "fetch"]
  /\ UNCHANGED file

\* _retrieve_from_cache: json.loads(cache_filepath.read_text())
ReadText(p) ==
  /\ procs[p].pc = "read"
  /\ LET v == Decode(file.text)
     IN procs' = [procs EXCEPT ![p] =
                    IF v = "invalid"
                    THEN Proc("done", "none", 0, "raise", "JSONDecodeError")
                    ELSE Proc("done", "none", 0, "value", v)]
  /\ UNCHANGED file

\* self._perform_request(...) returns; _save_to_cache skips the write unless
\* sc is 200 and the payload is not None
Fetch(p, o) ==
  /\ procs[p].pc = "fetch"
  /\ procs' = [procs EXCEPT ![p] =
                 IF o.sc = 200 /\ o.body # "null"
                 THEN Proc("open", o.body, o.sc, "none", "none")
                 ELSE Proc("done", o.body, o.sc, "value", o.body)]
  /\ UNCHANGED file

\* cache_filepath.write_text: open(mode="w") creates or truncates the file
Open(p) ==
  /\ procs[p].pc = "open"
  /\ file' = [exists |-> TRUE, text |-> <<>>]
  /\ procs' = [procs EXCEPT ![p].pc = "write"]

\* cache_filepath.write_text: the characters are written from offset 0 and
\* the file is closed; _get_json_from_url returns response_json
Write(p) ==
  /\ procs[p].pc = "write"
  /\ file' = [exists |-> TRUE, text |-> Overlay(Chars(procs[p].body), file.text)]
  /\ procs' = [procs EXCEPT ![p].pc = "done", ![p].kind = "value",
                            ![p].val = procs[p].body]

\* ----------------------------------------------------- variable resolution
\* Python values of the variable argument and of the code column: an int or a
\* str.  Strings are kept as text; int() and str() convert between the two.
IntVal(n) == [t |-> "int", v |-> n, s |-> ""]
StrVal(s) == [t |-> "str", v |-> 0, s |-> s]

\* str.isdigit() and int() on the strings of the model
DigitStrings == {"35", "36", "99"}
isdigit(s) == s \in DigitStrings
int(x) ==
  IF x.t = "int" THEN x
  ELSE IntVal(CASE x.s = "35" -> 35 [] x.s = "36" -> 36 [] OTHER -> 99)

\* A row of variables_df: the code column and the name column
Row(code, name) == [code |-> code, name |-> name]

\* Variable tables: integer codes (agrometeo, meteocat), two rows with one name,
\* non-numeric string codes, digit-string codes, a name made of digits
Agrometeo_df == <<Row(IntVal(35), "Precipitació"), Row(IntVal(36), "Temp")>>
Catalogs ==
  { Agrometeo_df,
    <<Row(IntVal(35), "Precipitació"), Row(IntVal(36), "Precipitació")>>,
    <<Row(StrVal("PPT"), "Precipitació"), Row(StrVal("T"), "Temp")>>,
    <<Row(StrVal("35"), "Precipitació"), Row(StrVal("T"), "Temp")>>,
    <<Row(IntVal(35), "36"), Row(IntVal(36), "Temp")>> }

\* ECV dicts, as the set of their items
Item(k, name) == [k |-> k, name |-> name]
ECV_DICT == {Item("precipitation", "Precipitació"), Item("temperature", "Temp")}
EcvDicts ==
  { ECV_DICT,
    {Item("precipitation", "Precipitació"), Item("Temp", "Precipitació")} }

Tokens ==
  {IntVal(n) : n \in {35, 36, 99}}
  \cup {StrVal(s) : s \in DigitStrings}
  \cup {StrVal(s) : s \in {"precipitation", "temperature", "Precipitació", "Temp",
                           "PPT", "T", "nope"}}

\* Mutant: the ECV dict is not consulted
EcvGetIdentity(ecv, s) == s

\* self._ecv_dict.get(variable, variable)
EcvGet(ecv, s) ==
  IF \E it \in ecv : it.k = s THEN (CHOOSE it \in ecv : it.k = s).name ELSE s

\* x in self.variables_df[self._variables_code_col].values
InCodes(x, df) == \E i \in 1..Len(df) : df[i].code = x

Returns(val) == [ok |-> TRUE, val |-> val, err |-> ""]
Raises(err) == [ok |-> FALSE, val |-> IntVal(0), err |-> err]

\* Mutant: the name lookup takes the first matching row
NameLookupFirst(df, name) ==
  LET rows == {i \in 1..Len(df) : df[i].name = name}
  IN IF rows = {} THEN Raises("ValueError")
     ELSE Returns(df[CHOOSE i \in rows : \A j \in rows : i <= j].code)

\* variables_df.loc[variables_df[name_col] == variable_name, code_col].item()
NameLookup(df, name) ==
  LET rows == {i \in 1..Len(df) : df[i].name = name}
  IN IF Cardinality(rows) = 1
     THEN Returns(df[CHOOSE i \in rows : TRUE].code)
     ELSE Raises("ValueError")

\* Mutant: a digit string is looked up as the string it is
CodeLookupAsGiven(variable, df) ==
  IF InCodes(variable, df) THEN Returns(variable) ELSE Raises("ValueError")

\* case a: variable_code = int(variable), checked against the code column
CodeLookup(variable, df) ==
  LET variable_code == int(variable)
  IN IF ~InCodes(variable_code, df)
     THEN Raises("ValueError")
     ELSE Returns(variable_code)

_process_variable_arg(variable, df, ecv) ==
  IF variable.t = "int" \/ isdigit(variable.s)
  THEN CodeLookup(variable, df)
  ELSE IF InCodes(variable, df)
  THEN Returns(variable)
  ELSE NameLookup(df, EcvGet(ecv, variable.s))

\* ------------------------------------------------------ provider catalogs
\* The canonical vocabulary of essential climate variables
ECVS ==
  {"precipitation", "pressure", "surface_radiation_longwave",
   "surface_radiation_shortwave", "surface_wind_speed",
   "surface_wind_direction", "temperature", "water_vapour"}

\* The ECV dicts of the clients, in the order of their items
AEMET_ECV_DICT ==
  <<Item("precipitation", "prec"), Item("pressure", "pres"),
    Item("surface_wind_speed", "vv"), Item("surface_wind_direction", "dv"),
    Item("temperature", "ta"), Item("water_vapour", "hr")>>
AGROMETEO_ECV_DICT ==
  <<Item("precipitation", "Precipitation"), Item("pressure", "Real air pressure"),
    Item("surface_radiation_shortwave", "Solar radiation"),
    Item("surface_wind_speed", "Avg. wind speed"),
    Item("surface_wind_direction", "Wind direction"),
    Item("temperature", "Temperature 2m above ground"),
    Item("water_vapour", "Relative humidity")>>
METEOCAT_ECV_DICT ==
  <<Item("precipitation", "Precipitació"), Item("pressure", "Pressió atmosfèrica"),
    Item("surface_radiation_shortwave", "Radiació UV"),
    Item("surface_wind_speed", "Velocitat del vent a 10 m (esc.)"),
    Item("surface_wind_direction", "Direcció de vent 10 m (m. 1)"),
    Item("temperature", "Temperatura"), Item("water_vapour", "Humitat relativa")>>
METOFFICE_ECV_DICT ==
  <<Item("pressure", "P"), Item("surface_wind_speed", "S"),
    Item("surface_wind_direction", "D"), Item("temperature", "T"),
    Item("water_vapour", "H")>>
ONEMIN_ECV_DICT ==
  <<Item("precipitation", "precip"), Item("pressure", "pres1"),
    Item("surface_wind_speed", "sknt"), Item("surface_wind_direction", "drct"),
    Item("temperature", "tmpf")>>
METAR_ECV_DICT ==
  <<Item("precipitation", "p01i"), Item("pressure", "mslp"),
    Item("surface_wind_speed", "sknt"), Item("surface_wind_direction", "drct"),
    Item("temperature", "tmpf"), Item("water_vapor", "relh")>>

\* The hardcoded variable dicts of the IEM clients: code, name
ONEMIN_VARIABLES_DICT ==
  <<KV("tmpf", "Air Temperature"), KV("dwpf", "Dew Point Temperature"),
    KV("sknt", "Wind Speed"), KV("drct", "Wind Direction"),
    KV("pres1", "Sensor 1 Station Pressure"), KV("precip", "1 minute precip")>>
METAR_VARIABLES_DICT ==
  <<KV("tmpf", "Air Temperature"), KV("dwpf", "Dew Point Temperature"),
    KV("relh", "Relative Humidity"), KV("sknt", "Wind Speed"),
    KV("drct", "Wind Direction"), KV("mslp", "Sea Level Pressure in millibar"),
    KV("p01i", "1 minute precip")>>

\* VariablesHardcodedMixin.variables_df:
\* pd.DataFrame(self._variables_dict.items(), columns=[code_col, name_col])
HardcodedDf(dict) == [i \in 1..Len(dict) |-> Row(StrVal(dict[i].k), dict[i].v)]

\* The table of a client that reads it from its variables endpoint is not in
\* the repository: it is taken to list the variables the client's ECV dict
\* names, under integer codes, or under the name itself for the clients whose
\* code column is their name column (aemet, metoffice)
ServedDf(dict, sameCol) ==
  [i \in 1..Len(dict) |->
     Row(IF sameCol THEN StrVal(dict[i].name) ELSE IntVal(i), dict[i].name)]

Items(dict) == {dict[i] : i \in 1..Len(dict)}

\* A provider client: its variable table and its ECV dict
Provider(name, hardcoded, df, dict) ==
  [name |-> name, hardcoded |-> hardcoded, df |-> df, ecv |-> Items(dict)]
Providers ==
  {Provider("AemetClient", FALSE, ServedDf(AEMET_ECV_DICT, TRUE), AEMET_ECV_DICT),
   Provider("AgrometeoClient", FALSE, ServedDf(AGROMETEO_ECV_DICT, FALSE),
            AGROMETEO_ECV_DICT),
   Provider("MeteocatClient", FALSE, ServedDf(METEOCAT_ECV_DICT, FALSE),
            METEOCAT_ECV_DICT),
   Provider("MetOfficeClient", FALSE, ServedDf(METOFFICE_ECV_DICT, TRUE),
            METOFFICE_ECV_DICT),
   Provider("ASOSOneMinIEMClient", TRUE, HardcodedDf(ONEMIN_VARIABLES_DICT),
            ONEMIN_ECV_DICT),
   Provider("METARASOSIEMClient", TRUE, HardcodedDf(METAR_VARIABLES_DICT),
            METAR_ECV_DICT)}

\* The variables asked of a provider client: ECV keys, IEM codes, IEM names
ProviderTokens ==
  {StrVal(k) : k \in ECVS \cup {"water_vapor"}}
  \cup {StrVal(ONEMIN_VARIABLES_DICT[i].k) : i \in 1..Len(ONEMIN_VARIABLES_DICT)}
  \cup {StrVal(METAR_VARIABLES_DICT[i].k) : i \in 1..Len(METAR_VARIABLES_DICT)}
  \cup {StrVal(METAR_VARIABLES_DICT[i].v) : i \in 1..Len(METAR_VARIABLES_DICT)}

NoVariableCall == [made |-> FALSE, variable |-> IntVal(0), res |-> Raises("")]

InitCatalog(df, ecv) ==
  /\ variables_df = df
  /\ _ecv_dict = ecv
  /\ variable_call = NoVariableCall
  /\ join_call = NoJoinCall

InitClient(imported) ==
  /\ ox = imported
  /\ region_call = NoRegionCall
  /\ _region = [inst \in Instances |-> Unset]
  /\ stations_region = [inst \in Instances |-> Unset]
  /\ nsets = 0

InitFetch ==
  /\ InitFolder
  /\ USE_CACHE = TRUE
  /\ cache = <<>>
  /\ writer = <<>>
  /\ pc = "idle"
  /\ call = [client |-> ClientsBase, args |-> Plain,
             use_cache |-> TRUE, hit |-> FALSE, prior |-> {}, cache0 |-> <<>>]
  /\ stack = <<>>
  /\ ret = NoRet
  /\ trace = <<>>
  /\ reqs = <<>>
  /\ resps = <<>>
  /\ ncalls = 0
  /\ memo = [at \in Attributes |-> 0]
  /\ access = NoAccess
  /\ nextObj = 1
  /\ got = [at \in Attributes |-> {}]
  /\ ncompute = [at \in Attributes |-> 0]
  /\ nfailed = [at \in Attributes |-> 0]

Init == InitFetch /\ InitClient(TRUE) /\ InitCatalog(Agrometeo_df, ECV_DICT)

Idle == pc \in {"idle", "done"} /\ ~access.active

\* tests/test_meteostations.py override_settings: a setting changes between calls
SetUseCache ==
  /\ Idle
  /\ USE_CACHE' = ~USE_CACHE
  /\ UNCHANGED <<cache, writer, pc, call, stack, ret, trace, reqs, resps, ncalls>>
  /\ UNCHANGED memoVars

\* History: the payload the call that has just finished returned, when that call
\* ran with the cache enabled, went to the network and ended on a status-200 JSON
\* response with a non-null body
LastServed ==
  IF /\ pc = "done"
     /\ call.use_cache
     /\ ConsultsCache(call.client.cls)
     /\ ret.kind = "value"
     /\ resps # <<>>
     /\ resps[Len(resps)].sc = 200
     /\ resps[Len(resps)].body \notin {"null", "html"}
  THEN {ret.val}
  ELSE {}

\* _get_json_from_url up to the cache lookup: a hit returns, a miss (or a class
\* that does not consult the cache) enters _perform_request
GetJsonFromUrl(client, args) ==
  LET cached == IF ConsultsCache(client.cls)
                THEN _retrieve_from_cache(prepared_url(client, args), cache, USE_CACHE)
                ELSE NoneVal
      hit == cached # NoneVal
  IN /\ Idle
     /\ ncalls < MaxCalls
     /\ ncalls' = ncalls + 1
     /\ call' = [client |-> client, args |-> args, use_cache |-> USE_CACHE,
                 hit |-> hit,
                 prior |-> IF client = call.client /\ args = call.args
                           THEN LastServed ELSE {},
                 cache0 |-> cache]
     /\ reqs' = <<>>
     /\ resps' = <<>>
     /\ IF hit
        THEN /\ pc' = "done"
             /\ ret' = Returned(cached)
             /\ stack' = <<>>
             /\ trace' = <<Ev("log_retrieved", 0)>>
        ELSE /\ pc' = "pause"
             /\ ret' = NoRet
             /\ stack' = <<Frame(args.url, args.params, args.headers, args.pause,
                                 args.error_pause)>>
             /\ trace' = <<>>
     /\ UNCHANGED <<USE_CACHE, cache, writer>>

Top == stack[Len(stack)]
SetTop(f) == [stack EXCEPT ![Len(stack)] = f]

\* Mutant: only the first attempt sleeps `pause`; a retry goes from its error
\* pause straight to the request
PauseFirstAttemptOnly ==
  /\ pc = "pause"
  /\ LET p == IF Top.pause = NoneInt THEN PAUSE ELSE Top.pause
     IN /\ stack' = SetTop([Top EXCEPT !.pause = p])
        /\ trace' = IF Len(stack) = 1 THEN Append(trace, Ev("sleep", p)) ELSE trace
  /\ pc' = "get"
  /\ UNCHANGED <<USE_CACHE, cache, writer, call, ret, reqs, resps, ncalls>>
  /\ UNCHANGED memoVars

\* _perform_request: resolve pause, log, time.sleep(pause)
Pause ==
  /\ pc = "pause"
  /\ LET p == IF Top.pause = NoneInt THEN PAUSE ELSE Top.pause
     IN /\ stack' = SetTop([Top EXCEPT !.pause = p])
        /\ trace' = Append(trace, Ev("sleep", p))
  /\ pc' = "get"
  /\ UNCHANGED <<USE_CACHE, cache, writer, call, ret, reqs, resps, ncalls>>
  /\ UNCHANGED memoVars

\* Mutant: the retry backs off, doubling error_pause
RetryFrameBackoff(f) ==
  [url |-> f.url, params |-> f.params, headers |-> f.headers, pause |-> f.pause,
   error_pause |-> 2 * f.error_pause, sc |-> 0, response_json |-> NoneVal]

\* The arguments of the recursive self._perform_request(...) after a 429/504
RetryFrame(f) ==
  Frame(f.url, f.params, f.headers, f.pause, f.error_pause)

\* _perform_request: requests.get with the merged params and headers, then
\* response.json(); the server's answer is the input
Answer(resp) ==
  /\ pc = "get"
  /\ reqs' = Append(reqs, [url |-> Top.url,
                           params |-> Merged(call.client.request_params, Top.params),
                           headers |-> Merged(call.client.request_headers, Top.headers)])
  /\ resps' = Append(resps, resp)
  /\ IF IsJson(resp)
     THEN /\ stack' = SetTop([Top EXCEPT !.sc = resp.sc,
                                         !.response_json = PyVal(resp.body, <<>>)])
          /\ trace' = Append(trace, Ev("GET", resp.sc))
          /\ pc' = "return"
          /\ ret' = ret
     ELSE IF resp.sc \in {429, 504}
     THEN LET ep == IF Top.error_pause = NoneInt THEN ERROR_PAUSE
                    ELSE Top.error_pause
          IN /\ stack' = SetTop([Top EXCEPT !.sc = resp.sc, !.error_pause = ep])
             /\ trace' = trace \o <<Ev("GET", resp.sc), Ev("log_retry", ep)>>
             /\ pc' = "errpause"
             /\ ret' = ret
     ELSE \* unhandled status code: the exception leaves every frame and
          \* _get_json_from_url
          /\ stack' = <<>>
          /\ trace' = trace \o <<Ev("GET", resp.sc), Ev("log_error", resp.sc)>>
          /\ pc' = "done"
          /\ ret' = Raised(resp)
  /\ UNCHANGED <<USE_CACHE, cache, writer, call, ncalls>>
  /\ UNCHANGED memoVars

\* A request to a server that answers at most MaxRetries times with a non-JSON
\* 429/504 before it answers with something else
Get(resp) ==
  /\ (~IsJson(resp) /\ resp.sc \in {429, 504}) => Len(stack) <= MaxRetries
  /\ Answer(resp)

\* The exception Python raises when a call would nest deeper than the limit
RecursionError ==
  [kind |-> "raise", val |-> NoneVal, sc |-> 0, reason |-> "RecursionError",
   text |-> ""]

\* time.sleep(error_pause), then the recursive self._perform_request(...): one
\* more frame on the frames of the calls that are waiting for it, or a
\* RecursionError that leaves them all when the interpreter allows no more
ErrorPause ==
  /\ pc = "errpause"
  /\ trace' = Append(trace, Ev("sleep", Top.error_pause))
  /\ IF Len(stack) < RecursionLimit
     THEN /\ stack' = Append(stack, RetryFrame(Top))
          /\ pc' = "pause"
          /\ ret' = ret
     ELSE /\ stack' = <<>>
          /\ pc' = "done"
          /\ ret' = RecursionError
  /\ UNCHANGED <<USE_CACHE, cache, writer, call, reqs, resps, ncalls>>
  /\ UNCHANGED memoVars

\* The value a frame hands to its caller: the tuple (response_json, sc)
ReturnValue(f) == PyVal(f.response_json.json, Append(f.response_json.wraps, f.sc))

\* `return response_json, sc` of a recursive call: the caller's frame stores the
\* returned tuple in response_json and goes on to its own return
Return ==
  /\ pc = "return"
  /\ Len(stack) > 1
  /\ LET caller == stack[Len(stack) - 1]
     IN stack' = Append(SubSeq(stack, 1, Len(stack) - 2),
                        [caller EXCEPT !.response_json = ReturnValue(Top)])
  /\ UNCHANGED <<USE_CACHE, cache, writer, pc, call, ret, trace, reqs, resps,
                 ncalls>>
  /\ UNCHANGED memoVars

\* The outermost `return response_json, sc`, unpacked by _get_json_from_url,
\* which saves to the cache (unless the class bypasses it) and returns
Finish ==
  /\ pc = "return"
  /\ Len(stack) = 1
  /\ LET response_json == Top.response_json
         sc == Top.sc
         url == prepared_url(call.client, call.args)
         saved == IF ConsultsCache(call.client.cls)
                  THEN _save_to_cache(url, response_json, sc, cache, USE_CACHE)
                  ELSE [store |-> cache, log |-> <<>>]
     IN /\ cache' = saved.store
        /\ trace' = trace \o saved.log
        /\ writer' = IF saved.store = cache THEN writer
                     ELSE [f \in DOMAIN saved.store |->
                             IF f = sha1(url)
                             THEN [cls |-> call.client.cls, url |-> call.args.url,
                                   params |-> Merged(call.client.request_params,
                                                     call.args.params),
                                   headers |-> Merged(call.client.request_headers,
                                                      call.args.headers),
                                   sc |-> sc, resp |-> resps[Len(resps)]]
                             ELSE writer[f]]
        /\ ret' = Returned(response_json)
  /\ stack' = <<>>
  /\ pc' = "done"
  /\ UNCHANGED <<USE_CACHE, call, reqs, resps, ncalls>>
  /\ UNCHANGED memoVars

\* _stations_df_from_json / _variables_df_from_json index the payload by key:
\* they raise on None and on a tuple
Decodes(v) == v.wraps = <<>> /\ v.json \in {"p1", "p2"}

\* Mutant: the property computes its value on every access
NeverSet(at) == FALSE

\* `try: return self._stations_gdf` succeeds: the attribute is set
IsSet(at) == memo[at] # 0

\* Reading the property stations_gdf / variables_df: `try: return self._x`;
\* on AttributeError the value is computed, assigned to self._x and returned.
\* A hardcoded table is built on the spot, an endpoint table starts a fetch.
Access(at) ==
  /\ Idle
  /\ ncalls < MaxCalls
  /\ IF IsSet(at)
     THEN /\ got' = [got EXCEPT ![at] = @ \cup {memo[at]}]
          /\ ncalls' = ncalls + 1
          /\ UNCHANGED <<USE_CACHE, cache, writer, pc, call, stack, ret, trace,
                         reqs, resps, memo, access, nextObj, ncompute, nfailed>>
     ELSE IF Hardcoded(at)
     THEN /\ memo' = [memo EXCEPT ![at] = nextObj]
          /\ nextObj' = nextObj + 1
          /\ got' = [got EXCEPT ![at] = @ \cup {nextObj}]
          /\ ncompute' = [ncompute EXCEPT ![at] = @ + 1]
          /\ ncalls' = ncalls + 1
          /\ UNCHANGED <<USE_CACHE, cache, writer, pc, call, stack, ret, trace,
                         reqs, resps, access, nfailed>>
     ELSE /\ GetJsonFromUrl(ClientOf(at[1]), EndpointArgs(at))
          /\ access' = [active |-> TRUE, at |-> at]
          /\ ncompute' = [ncompute EXCEPT ![at] = @ + 1]
          /\ UNCHANGED <<memo, nextObj, got, nfailed>>

\* The fetch of the computation has ended: the decoded table is assigned to the
\* attribute and returned, or the exception leaves the property with the
\* attribute still unset
AccessFinish ==
  /\ access.active
  /\ pc = "done"
  /\ access' = NoAccess
  /\ IF ret.kind = "value" /\ Decodes(ret.val)
     THEN /\ memo' = [memo EXCEPT ![access.at] = nextObj]
          /\ nextObj' = nextObj + 1
          /\ got' = [got EXCEPT ![access.at] = @ \cup {nextObj}]
          /\ UNCHANGED nfailed
     ELSE /\ nfailed' = [nfailed EXCEPT ![access.at] = @ + 1]
          /\ UNCHANGED <<memo, nextObj, got>>
  /\ UNCHANGED <<ncompute, USE_CACHE, cache, writer, pc, call, stack, ret, trace,
                 reqs, resps, ncalls>>

Next ==
  \/ SetUseCache /\ UNCHANGED clientVars
  \/ \E c \in Calls : GetJsonFromUrl(c.client, c.args) /\ UNCHANGED memoVars
                       /\ UNCHANGED clientVars
  \/ Pause /\ UNCHANGED clientVars
  \/ \E resp \in Responses : Get(resp) /\ UNCHANGED clientVars
  \/ ErrorPause /\ UNCHANGED clientVars
  \/ Return /\ UNCHANGED clientVars
  \/ Finish /\ UNCHANGED clientVars

Spec == Init /\ [][Next]_vars

\* The attribute accesses of the clients, each fetch running to its end
NextMemo ==
  \/ \E at \in Attributes : Access(at) /\ UNCHANGED clientVars
  \/ AccessFinish /\ UNCHANGED clientVars
  \/ Pause /\ UNCHANGED clientVars
  \/ \E resp \in Responses : Get(resp) /\ UNCHANGED clientVars
  \/ ErrorPause /\ UNCHANGED clientVars
  \/ Return /\ UNCHANGED clientVars
  \/ Finish /\ UNCHANGED clientVars

SpecMemo == Init /\ [][NextMemo]_vars

\* The exception of a cache write the file system refuses
OSError ==
  [kind |-> "raise", val |-> NoneVal, sc |-> 0, reason |-> "OSError", text |-> ""]

\* The outermost return when the write of _save_to_cache raises (mkdir or
\* write_text on a folder that is read-only or full): nothing catches the
\* exception in _save_to_cache or in _get_json_from_url
FinishWriteFails ==
  /\ pc = "return"
  /\ Len(stack) = 1
  /\ ConsultsCache(call.client.cls)
  /\ USE_CACHE
  /\ Top.sc = 200
  /\ Top.response_json # NoneVal
  /\ ret' = OSError
  /\ stack' = <<>>
  /\ pc' = "done"
  /\ UNCHANGED <<USE_CACHE, cache, writer, call, trace, reqs, resps, ncalls>>
  /\ UNCHANGED memoVars

\* The fetches of Spec on a cache folder whose writes may fail
NextDisk ==
  \/ \E c \in Calls : c.args = Plain /\ GetJsonFromUrl(c.client, c.args)
                       /\ UNCHANGED memoVars /\ UNCHANGED clientVars
  \/ Pause /\ UNCHANGED clientVars
  \/ \E resp \in Responses : Get(resp) /\ UNCHANGED clientVars
  \/ ErrorPause /\ UNCHANGED clientVars
  \/ Return /\ UNCHANGED clientVars
  \/ Finish /\ UNCHANGED clientVars
  \/ FinishWriteFails /\ UNCHANGED clientVars

SpecDisk == Init /\ [][NextDisk]_vars

\* The fetches of Spec for requests that differ in nothing but their headers
NextHeaders ==
  \/ \E client \in {ClientsBase, WithApiKey}, args \in {Plain, WithH} :
       GetJsonFromUrl(client, args) /\ UNCHANGED memoVars /\ UNCHANGED clientVars
  \/ Pause /\ UNCHANGED clientVars
  \/ \E resp \in Responses : Get(resp) /\ UNCHANGED clientVars
  \/ ErrorPause /\ UNCHANGED clientVars
  \/ Return /\ UNCHANGED clientVars
  \/ Finish /\ UNCHANGED clientVars

SpecHeaders == Init /\ [][NextHeaders]_vars

\* The variables the two processes leave alone
notRaceVars == <<fetchVars, memoVars, regionVars, variableVars, join_call>>

NextRace ==
  \/ \E p \in Procs : Lookup(p) /\ UNCHANGED notRaceVars
  \/ \E p \in Procs : ReadText(p) /\ UNCHANGED notRaceVars
  \/ \E p \in Procs, o \in Outcomes : Fetch(p, o) /\ UNCHANGED notRaceVars
  \/ \E p \in Procs : Open(p) /\ UNCHANGED notRaceVars
  \/ \E p \in Procs : Write(p) /\ UNCHANGED notRaceVars

\* Every interleaving of the two processes' file-system and network steps
SpecRace == Init /\ [][NextRace]_vars

\* The calls of one client class each, without arguments
LiveCalls == {c \in Calls : c.args = Plain}

\* A fetch against a server that may answer 429/504 any number of times
NextLive ==
  \/ \E c \in LiveCalls : GetJsonFromUrl(c.client, c.args) /\ UNCHANGED memoVars
                           /\ UNCHANGED clientVars
  \/ Pause /\ UNCHANGED clientVars
  \/ \E resp \in Responses : Answer(resp) /\ UNCHANGED clientVars
  \/ ErrorPause /\ UNCHANGED clientVars
  \/ Return /\ UNCHANGED clientVars
  \/ Finish /\ UNCHANGED clientVars

\* The program is sequential: a sleep ends, a request is answered (requests.get
\* is given a timeout), a return returns.  Which answer the server gives is
\* left open.
SpecLive ==
  /\ Init
  /\ [][NextLive]_vars
  /\ WF_vars(Pause /\ UNCHANGED clientVars)
  /\ WF_vars(\E resp \in Responses : Answer(resp) /\ UNCHANGED clientVars)
  /\ WF_vars(ErrorPause /\ UNCHANGED clientVars)
  /\ WF_vars(Return /\ UNCHANGED clientVars)
  /\ WF_vars(Finish /\ UNCHANGED clientVars)

\* `self.region = region` in __init__ and the public setter:
\* self._region = self._process_region_arg(region)
SetRegion(inst, region) ==
  LET res == _process_region_arg(ResolverOf(inst), region, ox)
  IN /\ nsets < MaxSets
     /\ nsets' = nsets + 1
     /\ region_call' = [inst |-> inst, arg |-> region, res |-> res,
                        before |-> _region[inst]]
     /\ _region' = IF res.ok THEN [_region EXCEPT ![inst] = IsNow(res.val)]
                   ELSE _region
     /\ UNCHANGED <<ox, stations_region>>

\* The first read of stations_gdf: _get_stations_gdf joins the catalog with
\* self.region and the result is kept in self._stations_gdf
StationsGdf(inst) ==
  /\ inst = "aemet"
  /\ _region[inst].set
  /\ ~stations_region[inst].set
  /\ stations_region' = [stations_region EXCEPT ![inst] = IsNow(_region[inst].val)]
  /\ UNCHANGED <<ox, region_call, _region, nsets>>

InitRegion ==
  /\ InitFetch
  /\ \E imported \in BOOLEAN : InitClient(imported)
  /\ InitCatalog(Agrometeo_df, ECV_DICT)

NextRegion ==
  \/ \E inst \in Instances, region \in RegionArgs :
       SetRegion(inst, region) /\ UNCHANGED fetchVars /\ UNCHANGED memoVars
       /\ UNCHANGED <<variableVars, join_call, raceVars>>
  \/ \E inst \in Instances :
       StationsGdf(inst) /\ UNCHANGED fetchVars /\ UNCHANGED memoVars
       /\ UNCHANGED <<variableVars, join_call, raceVars>>

\* The clients' Region: construction, the `region` setter, stations_gdf
SpecRegion == InitRegion /\ [][NextRegion]_vars

\* self._process_variable_arg(variable) on a client whose variable table is set
ProcessVariableArg(variable) ==
  /\ variable_call' = [made |-> TRUE, variable |-> variable,
                       res |-> _process_variable_arg(variable, variables_df,
                                                     _ecv_dict)]
  /\ UNCHANGED <<variables_df, _ecv_dict>>

InitVariable ==
  /\ InitFetch
  /\ InitClient(TRUE)
  /\ \E df \in Catalogs, ecv \in EcvDicts : InitCatalog(df, ecv)

NextVariable ==
  \E variable \in Tokens :
     ProcessVariableArg(variable)
     /\ UNCHANGED <<fetchVars, memoVars, regionVars, join_call, raceVars>>

\* Variable resolution on clients with different variable tables and ECV dicts
SpecVariable == InitVariable /\ [][NextVariable]_vars

InitProviders ==
  /\ InitFetch
  /\ InitClient(TRUE)
  /\ \E c \in Providers : InitCatalog(c.df, c.ecv)

NextProviders ==
  \E variable \in ProviderTokens :
     ProcessVariableArg(variable)
     /\ UNCHANGED <<fetchVars, memoVars, regionVars, join_call, raceVars>>

\* Variable resolution on the provider clients of the repository
SpecProviders == InitProviders /\ [][NextProviders]_vars

\* self._get_stations_gdf() for a stations table, a Region and SJOIN_KWS
GetStationsGdf(cls, stations_df, region, kws) ==
  join_call' = [made |-> TRUE, cls |-> cls, stations_df |-> stations_df,
                region |-> region, kws |-> kws,
                res |-> IF cls = "IEMClient"
                        THEN IEM_get_stations_gdf(stations_df, region, kws)
                        ELSE _get_stations_gdf(stations_df, region, kws)]

NextStations ==
  \E cls \in JoinClasses, stations_df \in StationsDfs, region \in RegionGdfs,
     kws \in SjoinKwsSet :
     GetStationsGdf(cls, stations_df, region, kws)
     /\ UNCHANGED <<fetchVars, memoVars, regionVars, variableVars, raceVars>>

\* The spatial join of station tables with Regions
SpecStations == Init /\ [][NextStations]_vars

\* ---------------------------------------------------------- claim helpers
InFlight == pc \in {"pause", "get", "errpause", "return"}
Last(q) == q[Len(q)]
Retryable(resp) == ~IsJson(resp) /\ resp.sc \in {429, 504}
Unhandled(resp) == ~IsJson(resp) /\ resp.sc \notin {429, 504}
MergedParams == Merged(call.client.request_params, call.args.params)
CallFile == sha1(CacheUrl(call.client, call.args.url, call.args.params))
Count(tr, e) == Cardinality({i \in 1..Len(tr) : tr[i].e = e})
Network(tr) == Count(tr, "sleep") + Count(tr, "GET")
PairSet(d) == {d[i] : i \in 1..Len(d)}

\* ---------------------------------------------------------------------- C1
\* C1: with the cache enabled, once a call returned a (non-null) payload from a
\* status-200 JSON response, the next call with the identical URL and parameters
\* performs no pause and no GET and returns an equal payload.
C1_RepeatIsCacheHit ==
  (pc # "idle" /\ call.use_cache /\ call.prior # {}) =>
     /\ reqs = <<>>
     /\ Network(trace) = 0
     /\ pc = "done" => (ret.kind = "value" /\ ret.val \in call.prior)

\* ---------------------------------------------------------------------- C2
\* C2: a cache-enabled call answered by k >= 0 non-JSON 429/504 responses and then
\* one status-200 JSON response ends with the cache entry of its fingerprint
\* holding the payload of the 200 response, written exactly once.
RetriesThen200(rs) ==
  /\ rs # <<>>
  /\ Last(rs).sc = 200
  /\ Last(rs).body \notin {"html", "null"}
  /\ \A i \in 1..(Len(rs) - 1) : Retryable(rs[i])

C2_RetriesEndInOneEntry ==
  (/\ pc = "done"
   /\ call.use_cache
   /\ ConsultsCache(call.client.cls)
   /\ RetriesThen200(resps)) =>
     /\ CallFile \in DOMAIN cache
     /\ json_loads(cache[CallFile]) = PyVal(Last(resps).body, <<>>)
     /\ Count(trace, "log_saved") = 1

\* ---------------------------------------------------------------------- C3
\* Every stored entry is the non-null body of a response captured with status 200
EntriesAre200 ==
  \A f \in DOMAIN cache :
     /\ writer[f].sc = 200
     /\ writer[f].resp.sc = 200
     /\ json_loads(cache[f]) # NoneVal
     /\ json_loads(cache[f]) = PyVal(writer[f].resp.body, <<>>)

\* The step in which _get_json_from_url calls _save_to_cache with a status other
\* than 200 or with a None payload
SkippedSave ==
  /\ pc = "return"
  /\ Len(stack) = 1
  /\ ConsultsCache(call.client.cls)
  /\ (Top.sc # 200 \/ Top.response_json = NoneVal)

LoggedNotSaved(tr) ==
  Count(tr, "log_not_saved_sc") + Count(tr, "log_not_saved_none") > 0

\* C3 as stated: every stored entry is a non-null status-200 payload, and
\* _save_to_cache leaves the store unchanged and logs that it did not save
\* whenever the status is not 200 or the payload is None.
C3_SkipAlwaysLogged ==
  /\ []EntriesAre200
  /\ [][SkippedSave => (cache' = cache /\ LoggedNotSaved(trace'))]_vars

\* C3 amended: every stored entry is a non-null status-200 payload, and
\* _save_to_cache leaves the store unchanged whenever the status is not 200 or
\* the payload is None, logging that it did not save when settings.USE_CACHE is
\* True (with the cache disabled it returns without logging).
C3_OnlyStatus200Stored ==
  /\ []EntriesAre200
  /\ [][SkippedSave => /\ cache' = cache
                       /\ USE_CACHE => LoggedNotSaved(trace')
                       /\ ~USE_CACHE => trace' = trace]_vars

C3_Witness ==
  /\ pc = "done"
  /\ Count(trace, "log_not_saved_sc") = 1
  /\ ret.kind = "value"
  /\ ret.val.json = "p1"
  /\ DOMAIN cache # {}

\* ---------------------------------------------------------------------- C4
\* C4: a call is answered from the cache only by an entry written for the same
\* URL and the same merged query parameters, for every BaseClient class.
C4_KeyIncludesParams ==
  (pc = "done" /\ call.hit) =>
     /\ writer[CallFile].url = call.args.url
     /\ writer[CallFile].params = MergedParams

\* ---------------------------------------------------------------------- C5
\* An entry written by clients.base.BaseClient for the URL of the running call
SameUrlEntries ==
  {f \in DOMAIN call.cache0 :
      writer[f].cls = "ClientsBase" /\ writer[f].url = call.args.url}

\* C5 as stated: a request whose URL and set of parameter key/value pairs equal
\* those of a stored request is a cache hit, whatever the insertion order, and
\* the store never holds two entries for one URL and one set of pairs.
C5_OrderInsensitive ==
  /\ (pc # "idle" /\ call.use_cache /\ call.client.cls = "ClientsBase") =>
        \A f \in SameUrlEntries :
           PairSet(writer[f].params) = PairSet(MergedParams) => call.hit
  /\ \A f, g \in DOMAIN cache :
        (/\ writer[f].cls = "ClientsBase" /\ writer[g].cls = "ClientsBase"
         /\ writer[f].url = writer[g].url
         /\ PairSet(writer[f].params) = PairSet(writer[g].params)) => f = g

\* C5 amended: a request whose URL and merged parameters, in the same insertion
\* order, equal those of a stored request has the same fingerprint: it is a cache
\* hit that sends nothing, and no second entry is created for it.
C5_SameOrderHit ==
  /\ (pc # "idle" /\ call.use_cache /\ call.client.cls = "ClientsBase") =>
        \A f \in SameUrlEntries :
           writer[f].params = MergedParams =>
              /\ call.hit
              /\ f = CallFile
              /\ reqs = <<>>
              /\ cache = call.cache0
  /\ \A f, g \in DOMAIN cache :
        (/\ writer[f].cls = "ClientsBase" /\ writer[g].cls = "ClientsBase"
         /\ writer[f].url = writer[g].url
         /\ writer[f].params = writer[g].params) => f = g

C5_Witness ==
  /\ pc = "done"
  /\ call.hit
  /\ call.client.cls = "ClientsBase"
  /\ Len(MergedParams) = 2
  /\ writer[CallFile].params = MergedParams

\* ---------------------------------------------------------------------- C6
EffPause == IF call.args.pause = NoneInt THEN PAUSE ELSE call.args.pause
EffErrorPause ==
  IF call.args.error_pause = NoneInt THEN ERROR_PAUSE ELSE call.args.error_pause
Sleeps(tr) == SelectSeq(tr, LAMBDA e : e.e = "sleep")
NRetry(rs) == Cardinality({i \in 1..Len(rs) : Retryable(rs[i])})

RECURSIVE Rounds(_)
\* k attempts that each ended in an error pause: pause, GET, error_pause
Rounds(k) ==
  IF k <= 0 THEN <<>>
  ELSE <<Ev("sleep", EffPause), Ev("sleep", EffErrorPause)>> \o Rounds(k - 1)

\* The sleeps the pause / retry policy prescribes for the responses received so far
ExpectedSleeps ==
  CASE pc = "idle" -> <<>>
    [] pc = "pause" -> Rounds(NRetry(resps))
    [] pc = "errpause" -> Rounds(NRetry(resps) - 1) \o <<Ev("sleep", EffPause)>>
    [] OTHER -> IF call.hit THEN <<>>
                ELSE Rounds(NRetry(resps)) \o <<Ev("sleep", EffPause)>>

C7_UnhandledRaises ==
  (resps # <<>> /\ Unhandled(Last(resps))) =>
     /\ pc = "done"
     /\ stack = <<>>
     /\ ret.kind = "raise"
     /\ ret.sc = Last(resps).sc
     /\ ret.reason = Reason(Last(resps).sc)
     /\ ret.text = Last(resps).body
     /\ cache = call.cache0
     /\ Len(reqs) = Len(resps)
     /\ Sleeps(trace) = Rounds(Len(resps) - 1) \o <<Ev("sleep", EffPause)>>
     /\ Last(trace) = Ev("log_error", Last(resps).sc)

C7_Witness ==
  /\ pc = "done"
  /\ ret.kind = "raise"
  /\ ret.sc = 404
  /\ Len(resps) = 2
  /\ call.use_cache
  /\ DOMAIN cache # {}

\* ---------------------------------------------------------------------- C8
\* A fetch that bypasses the cache: AemetClient's, or any with USE_CACHE False
Bypassed == call.client.cls = "Aemet" \/ ~call.use_cache

\* C8: a bypassed fetch always goes to the network under the same pause / retry
\* policy, never returns a cached payload and leaves the Cache Store unchanged.
C8_BypassStillFetches ==
  (pc # "idle" /\ Bypassed) =>
     /\ ~call.hit
     /\ cache = call.cache0
     /\ Count(trace, "log_retrieved") = 0
     /\ Count(trace, "log_saved") = 0
     /\ Sleeps(trace) = ExpectedSleeps
     /\ pc = "done" =>
          /\ reqs # <<>>
          /\ ret.kind = "value" => ret.val.json = Last(resps).body

C8_Witness ==
  /\ pc = "done"
  /\ call.client.cls = "Aemet"
  /\ USE_CACHE
  /\ ret.kind = "value"
  /\ sha1(PreparedUrl(call.args.url, <<>>)) \in DOMAIN cache
  /\ json_loads(cache[sha1(PreparedUrl(call.args.url, <<>>))]).json # ret.val.json
  /\ Len(resps) = 2

\* ---------------------------------------------------------------------- C9
\* C9: an entry of the Cache Store is never removed and never has its payload
\* changed, whatever calls follow.
C9_WriteOnce ==
  [][\A f \in DOMAIN cache : f \in DOMAIN cache' /\ cache'[f] = cache[f]]_vars

C9_Witness ==
  /\ pc = "done"
  /\ DOMAIN call.cache0 # {}
  /\ cache # call.cache0

C11_SetOnce ==
  /\ [][\A inst \in Instances :
          /\ _region[inst].set => _region'[inst] = _region[inst]
          /\ stations_region[inst].set =>
                stations_region'[inst] = stations_region[inst]]_vars
  /\ [](\A inst \in Instances :
          stations_region[inst].set => stations_region[inst] = _region[inst])

\* --------------------------------------------------------------------- C12
Call == region_call
Made == nsets > 0

\* C12: whenever _process_region_arg returns, the returned Region is in the
\* client's declared CRS, and the final to_crs is the only statement that
\* changed coordinates: a value labelled with the client's CRS (bounding box,
\* naive geometries) keeps its coordinates, any other is moved exactly once.
C12_RegionInDeclaredCRS ==
  (Made /\ Call.res.ok) =>
     LET CRS == DeclaredCRS(ResolverOf(Call.inst))
         steps == Call.res.steps
         val == Call.res.val
     IN /\ val.crs = CRS
        /\ steps # <<>>
        /\ steps[Len(steps)] = "to_crs"
        /\ \A i \in 1..(Len(steps) - 1) : steps[i] # "to_crs"
        /\ Call.arg.t \in {"GeoDataFrame", "GeoSeries"} /\ Call.arg.crs # NoCRS =>
              val.geometry = [i \in 1..Len(Call.arg.data) |->
                                Transform(Call.arg.data[i].v, Call.arg.crs, CRS)]
        /\ Call.arg.t \in {"BaseGeometry", "list"} /\ ~IsBBox(Call.arg) =>
              val.geometry = [i \in 1..Len(Call.arg.data) |-> Call.arg.data[i].v]
        /\ "box" \in {steps[i] : i \in 1..Len(steps)} =>
              val.geometry = <<[i \in 1..4 |-> Call.arg.data[i].v[1]]>>
        /\ Call.arg.name \in Files =>
              val.geometry = [i \in 1..Len(FileGdf(Call.arg.name).geometry) |->
                                Transform(FileGdf(Call.arg.name).geometry[i],
                                          FileGdf(Call.arg.name).crs, CRS)]

C12_Witness ==
  /\ Made
  /\ Call.res.ok
  /\ Call.inst = "agrometeo"
  /\ Call.arg.t = "GeoSeries"
  /\ Call.arg.crs = "epsg:4326"
  /\ Call.res.val.geometry # <<Call.arg.data[1].v>>

\* --------------------------------------------------------------------- C13
Entered(stmt) == stmt \in {Call.res.steps[i] : i \in 1..Len(Call.res.steps)}
AllOf(data, kind) == \A i \in 1..Len(data) : data[i].k = kind

\* The strategy the fixed rule order assigns to an input
ExpectedStrategy(region) ==
  IF region.t \in {"GeoDataFrame", "GeoSeries"} /\ region.crs # NoCRS
  THEN "reproject"
  ELSE IF HasIter(region) /\ region.t # "str" /\ Len(region.data) = 4
          /\ AllOf(region.data, "num")
  THEN "bbox"
  ELSE IF region.t = "BaseGeometry"
          \/ (region.t \in {"list", "GeoSeries"} /\ region.data # <<>>
              /\ AllOf(region.data, "geom"))
  THEN "wrap"
  ELSE "file"

\* C13: clients.base.BaseClient._process_region_arg applies exactly the strategy
\* of the first matching rule: (1) geometry collection with CRS -> reprojection
\* only; (2) iterable of exactly 4 numeric values -> bounding box; (3) geometry or
\* non-string iterable of geometries -> wrapped collection; (4) otherwise load as
\* file/URL/stream; (5) geocode only if (4) fails, keeping the first candidate.
\* The bounding-box statement is entered iff the input has 4 elements, all numeric.
C13_FirstMatchingRule ==
  (Made /\ Call.inst = "agrometeo"
        /\ ~(Call.arg.t = "GeoDataFrame" /\ Call.arg.crs = NoCRS)) =>
     LET want == ExpectedStrategy(Call.arg)
     IN /\ Entered("box") <=> want = "bbox"
        /\ Entered("GeoSeries") <=> want \in {"bbox", "wrap"} /\ Call.arg.t # "GeoSeries"
        /\ Entered("read_file") <=> want = "file"
        /\ Entered("geocode") <=> (want = "file" /\ Call.arg.name \notin Files)
        /\ (Entered("geocode") /\ Call.res.ok) =>
              Call.res.val.geometry =
                 <<Transform(Candidates(Call.arg.name)[1], "epsg:4326",
                             DeclaredCRS("ClientsBase"))>>

\* --------------------------------------------------------------------- C14
\* C14: when the input falls through to the place-name fallback and osmnx could
\* not be imported (ox is None), _process_region_arg raises a dedicated
\* geocoding-unavailable error: it does not return, and it does not fail with an
\* unrelated error.
C14_GeocodingUnavailable ==
  (Made /\ ~ox /\ Entered("geocode")) =>
     /\ ~Call.res.ok
     /\ Call.res.err = "GeocodingUnavailableError"

\* ------------------------------------------------------------ C15 .. C18
VCall == variable_call
\* str(c) for the integer codes of the model
str(x) == StrVal(CASE x.v = 35 -> "35" [] x.v = 36 -> "36" [] OTHER -> "99")
\* The rows of the variable table whose display name is name
RowsNamed(name) == {i \in 1..Len(variables_df) : variables_df[i].name = name}
\* The four token forms of row i under the ECV item it: k, n, str(c), c
FourForms(i, it) ==
  {StrVal(it.k), StrVal(variables_df[i].name), str(variables_df[i].code),
   variables_df[i].code}
\* Row i has an integer code and the ECV item it maps its key to the row's name
RowAndKey(i, it) ==
  /\ variables_df[i].code.t = "int"
  /\ it.name = variables_df[i].name

\* C15 (as stated): for a catalog containing a row (code c, display name n) and
\* a canonical mapping k -> n, each of the four token forms k, n, str(c) and c
\* resolves to the native code c.
C15_FourFormsOneCode ==
  VCall.made =>
    \A i \in 1..Len(variables_df), it \in _ecv_dict :
       (RowAndKey(i, it) /\ VCall.variable \in FourForms(i, it))
         => VCall.res = Returns(variables_df[i].code)

\* The name n and the key k are read as a name and as a key: n names one row
\* only, neither is made of digits or is a value of the code column, and n is
\* not itself a key of the ECV dict mapped to another name
ReadAsNameAndKey(i, it) ==
  LET n == variables_df[i].name
  IN /\ Cardinality(RowsNamed(n)) = 1
     /\ ~isdigit(n) /\ ~isdigit(it.k)
     /\ ~InCodes(StrVal(n), variables_df) /\ ~InCodes(StrVal(it.k), variables_df)
     /\ \A other \in _ecv_dict : other.k = n => other.name = n
     /\ \A other \in _ecv_dict : other.k = it.k => other.name = n

\* C15 (amended): for a catalog row (integer code c, display name n) and a
\* canonical mapping k -> n where n is the display name of that row only, n and
\* k are neither digit strings nor native codes and n is not remapped by the
\* ECV dict, the four token forms k, n, str(c) and c all resolve to the int c.
C15_FourFormsUnambiguous ==
  VCall.made =>
    \A i \in 1..Len(variables_df), it \in _ecv_dict :
       (RowAndKey(i, it) /\ ReadAsNameAndKey(i, it)
          /\ VCall.variable \in FourForms(i, it))
         => VCall.res = Returns(variables_df[i].code)

\* "precipitation" resolved to 35 through the ECV dict and the name column
C15_Witness ==
  /\ VCall.made
  /\ VCall.variable = StrVal("precipitation")
  /\ \E i \in 1..Len(variables_df), it \in _ecv_dict :
        /\ RowAndKey(i, it) /\ ReadAsNameAndKey(i, it)
        /\ it.k = "precipitation"
        /\ VCall.res = Returns(IntVal(35))

\* The token is an integer or an all-digit string
Numeric(variable) == variable.t = "int" \/ isdigit(variable.s)

\* C16 (as stated): a numeric token whose integer value is in the code column
\* is returned unchanged in the type supplied (string stays string, int stays
\* int); when the integer value is not in the code column the call fails.
C16_NumericTokenUnchanged ==
  (VCall.made /\ Numeric(VCall.variable)) =>
     IF InCodes(int(VCall.variable), variables_df)
     THEN VCall.res = Returns(VCall.variable)
     ELSE ~VCall.res.ok

\* C16 (amended): a numeric token whose integer value is in the code column
\* resolves to that integer value, an int whatever the type of the token (an
\* integer token is returned unchanged, a digit string is returned converted);
\* when the integer value is not in the code column the call raises ValueError.
C16_NumericTokenAsInt ==
  (VCall.made /\ Numeric(VCall.variable)) =>
     IF InCodes(int(VCall.variable), variables_df)
     THEN /\ VCall.res = Returns(int(VCall.variable))
          /\ VCall.res.val.t = "int"
     ELSE VCall.res = Raises("ValueError")

\* The digit string "35" resolved against a column holding the integer 35
C16_Witness ==
  /\ VCall.made
  /\ VCall.variable = StrVal("35")
  /\ InCodes(IntVal(35), variables_df)
  /\ VCall.res = Returns(IntVal(35))

\* C17: resolution is a no-op on native codes (integer, non-numeric string and
\* digit-string codes alike) and idempotent: a code of the code column resolves
\* to itself, and resolving the result of a resolution gives that result again.
C17_NoOpAndIdempotent ==
  VCall.made =>
    /\ InCodes(VCall.variable, variables_df)
         => VCall.res = Returns(VCall.variable)
    /\ VCall.res.ok
         => _process_variable_arg(VCall.res.val, variables_df, _ecv_dict)
              = VCall.res

\* C18: a token that is neither numeric nor a native code is mapped through the
\* ECV dict when it is a key and looked up in the name column; the call fails
\* when no row or more than one row has that name, and returns the code of the
\* single row otherwise.
C18_NameLookupSingleRow ==
  (VCall.made /\ ~Numeric(VCall.variable)
     /\ ~InCodes(VCall.variable, variables_df)) =>
     LET key == VCall.variable.s
         name == IF \E it \in _ecv_dict : it.k = key
                 THEN (CHOOSE it \in _ecv_dict : it.k = key).name
                 ELSE key
     IN IF Cardinality(RowsNamed(name)) = 1
        THEN \E i \in RowsNamed(name) :
                VCall.res = Returns(variables_df[i].code)
        ELSE ~VCall.res.ok

\* An ECV key whose name two rows carry: the call has failed
C18_Witness ==
  /\ VCall.made
  /\ VCall.variable = StrVal("precipitation")
  /\ Cardinality(RowsNamed("Precipitació")) = 2
  /\ ~VCall.res.ok

\* ------------------------------------------------------------------ C19
JCall == join_call
\* The station point satisfies the configured predicate against the Region
InRegion(r) ==
  LET predicate == IF JCall.kws.predicate = "absent" THEN "intersects"
                   ELSE JCall.kws.predicate
  IN \E j \in 1..Len(JCall.region.geometry) :
        IF predicate = "within"
        THEN r.pt \in JCall.region.geometry[j].interior
        ELSE r.pt \in JCall.region.geometry[j].interior
                        \cup JCall.region.geometry[j].boundary

\* C19: for any station catalog and Region, _get_stations_gdf returns exactly
\* the catalog rows whose point satisfies the configured predicate against the
\* Region ("intersects" when none is given), each once, in catalog order, with
\* the catalog's columns plus geometry and their values unchanged.
C19_ExactlyMatchingRows ==
  JCall.made =>
    /\ JCall.res.ok
    /\ JCall.res.rows = SelectSeq(JCall.stations_df.rows, InRegion)
    /\ JCall.res.columns = JCall.stations_df.columns \cup {"geometry"}

\* ------------------------------------------------------------------ C20
\* A call that went to the network has ended
FetchEnded == pc = "done" /\ resps # <<>>
\* The server has given an answer that is not a non-JSON 429/504
Answered == resps # <<>> /\ ~Retryable(Last(resps))

\* C20: once the server answers with a JSON body, or with a non-JSON body whose
\* status is not 429/504, the _perform_request call eventually terminates,
\* returning or raising; a call raises only for such an unhandled answer, so
\* the 429/504 answers before it are never surfaced; and a call ends only on
\* an answer that is not a non-JSON 429/504, so that a server answering
\* 429/504 forever keeps the call from ever terminating.
C20_RetriesUntilAnswered ==
  /\ (InFlight /\ Answered) ~> (pc = "done")
  /\ []((FetchEnded /\ ret.kind = "raise") => Unhandled(Last(resps)))
  /\ [](FetchEnded => ~Retryable(Last(resps)))

\* ------------------------------------------------------------------ C21
\* The outermost _perform_request frame is at its `return response_json, sc`
AtOuterReturn == pc = "return" /\ Len(stack) = 1

\* C21: _perform_request returns the pair (decoded body of the final response,
\* status code of that same response) for every response sequence: after
\* retries the payload is the final body itself, not a nested pair, and the
\* status code is the final response's, not the first failed attempt's.
C21_ReturnsFinalPair ==
  AtOuterReturn =>
    /\ Top.response_json = PyVal(Last(resps).body, <<>>)
    /\ Top.sc = Last(resps).sc

\* ------------------------------------------------------------------ C22
\* The positions of the GET events in the trace of the current call
Gets == {i \in 1..Len(trace) : trace[i].e = "GET"}

\* C22: every GET of the fetcher is immediately preceded by a sleep of `pause`
\* seconds, on the first attempt and on every retry; a retry runs error_pause,
\* pause, GET; a call answered from the cache neither sleeps nor sends a GET.
C22_PauseBeforeEveryGet ==
  /\ \A i \in Gets :
        /\ i > 1
        /\ trace[i - 1] = Ev("sleep", EffPause)
        /\ (\E j \in Gets : j < i) =>
              /\ i > 2
              /\ trace[i - 2] = Ev("sleep", EffErrorPause)
  /\ Cardinality(Gets) = Len(reqs)
  /\ (pc = "done" /\ call.hit) =>
        /\ Gets = {}
        /\ Sleeps(trace) = <<>>
        /\ reqs = <<>>

\* A call that was retried twice has ended: three GETs, each after its pause
C22_Witness ==
  /\ pc = "done"
  /\ ~call.hit
  /\ Cardinality(Gets) = 3
  /\ Len(Sleeps(trace)) = 5

\* ------------------------------------------------------------------ C23
\* A single geometry, an iterable of geometries, or a geo-series without CRS
NaiveGeometries(region) ==
  \/ region.t = "BaseGeometry"
  \/ region.t = "list" /\ AllOf(region.data, "geom")
  \/ region.t = "GeoSeries" /\ region.crs = NoCRS

\* C23: a single geometry, an iterable of geometries or a geometry series that
\* carries no CRS is labelled with the client's CRS without any coordinate
\* transform: the resolution succeeds and the Region has the coordinates of
\* the input.
C23_NaiveGeometryLabelled ==
  (Made /\ NaiveGeometries(Call.arg)) =>
     /\ Call.res.ok
     /\ Call.res.val = Gdf(DeclaredCRS(ResolverOf(Call.inst)),
                           [i \in 1..Len(Call.arg.data) |-> Call.arg.data[i].v])

\* ------------------------------------------------------------------ C24
\* A call went to the network and its last response had a JSON body
FetchedJson == pc = "done" /\ ~call.hit /\ resps # <<>> /\ IsJson(Last(resps))
\* The call wrote no cache entry
NothingWritten == cache = call.cache0

\* C24: a cache write that is skipped (status other than 200, null payload) or
\* that fails (the write raises) is not fatal: a diagnostic is logged and
\* _get_json_from_url still returns the payload received from the network.
C24_CacheWriteNonFatal ==
  (FetchedJson /\ ConsultsCache(call.client.cls) /\ call.use_cache
     /\ NothingWritten) =>
     /\ ret = Returned(PyVal(Last(resps).body, <<>>))
     /\ LoggedNotSaved(trace)

\* ------------------------------------------------------------------ C25
\* Both processes have returned or raised
Quiescent == \A p \in Procs : procs[p].pc = "done"
\* The payloads the processes received with status 200
Received200 == {procs[p].body : p \in {q \in Procs : procs[q].sc = 200}}

\* C25: under any interleaving of two processes running the read-then-write
\* sequence for one fingerprint on a shared folder, without a lock, the entry
\* is a payload that some process received with status 200 (the last write
\* wins), and each process returns the cached entry or the payload it received
\* itself.
C25_RaceIsBenign ==
  /\ (Quiescent /\ file.exists) =>
        \E body \in Received200 \ {"null"} : file.text = Chars(body)
  /\ \A p \in Procs :
        procs[p].pc = "done" =>
           /\ procs[p].kind = "value"
           /\ \/ procs[p].val = procs[p].body
              \/ procs[p].body = "none" /\ procs[p].val \in Received200 \ {"null"}

\* ------------------------------------------------------------ C26, C27
\* The provider clients whose table and ECV dict the running client has
Running == {c \in Providers : c.df = variables_df /\ c.ecv = _ecv_dict}

\* C26: for every client with a hardcoded variable catalog (ASOSOneMinIEMClient,
\* METARASOSIEMClient), every key of the client's ECV dict resolves through
\* _process_variable_arg to a native code that is in the client's catalog.
C26_HardcodedKeysResolve ==
  (VCall.made /\ (\E c \in Running : c.hardcoded)
     /\ (\E it \in _ecv_dict : VCall.variable = StrVal(it.k))) =>
     /\ VCall.res.ok
     /\ InCodes(VCall.res.val, variables_df)

\* C27: every key of every provider client's ECV dict is a member of the
\* canonical vocabulary ECVS.
C27_KeysInVocabulary ==
  \A it \in _ecv_dict : it.k \in ECVS

\* ------------------------------------------------------------------ C28
\* C28: every station of the catalog appears at most once in the table that
\* _get_stations_gdf returns, for every Region, a Region of several
\* overlapping geometries that one station point intersects included.
C28_StationsOnce ==
  (JCall.made /\ JCall.res.ok) =>
     \A i, j \in 1..Len(JCall.res.rows) :
        JCall.res.rows[i].id = JCall.res.rows[j].id => i = j

\* ------------------------------------------------------------------ C29
\* C29: the two region resolvers (RegionMixin._process_region_arg and
\* clients.base.BaseClient._process_region_arg) are equivalent: for every value
\* passed as region and every client CRS, either both raise or both return the
\* same Region.
C29_ResolversEquivalent ==
  Made =>
    \A CRS \in CRSs :
       LET a == ProcessRegionArg("RegionMixin", CRS, Call.arg, ox)
           b == ProcessRegionArg("ClientsBase", CRS, Call.arg, ox)
       IN /\ a.ok = b.ok
          /\ a.ok => a.val = b.val

\* ------------------------------------------------------------------ C30
\* C30: the cache fingerprint of a request depends on its URL and merged
\* parameters only, never on its headers: a call whose URL and merged
\* parameters are those of the request that wrote an entry, whatever the
\* headers of either, has the fingerprint of that entry and is answered from
\* it without any network request.
SameButHeaders(f) ==
  /\ f \in DOMAIN call.cache0
  /\ writer[f].cls = call.client.cls
  /\ writer[f].url = call.args.url
  /\ writer[f].params = MergedParams

C30_HeadersNotInFingerprint ==
  (ncalls > 0 /\ call.use_cache) =>
     \A f \in DOMAIN cache :
        SameButHeaders(f) =>
          /\ sha1(prepared_url(call.client, call.args)) = f
          /\ call.hit
          /\ reqs = <<>>
          /\ pc = "done"
          /\ ret = Returned(json_loads(call.cache0[f]))

C30_Witness ==
  /\ pc = "done"
  /\ call.hit
  /\ reqs = <<>>
  /\ \E f \in DOMAIN cache :
        /\ SameButHeaders(f)
        /\ writer[f].headers
             # Merged(call.client.request_headers, call.args.headers)

====
